---------------------------- MODULE Spec2Model ----------------------------
(***************************************************************************)
(* A model of submit_job.py: the command-line front-end that parses its    *)
(* arguments, merges the cluster defaults, builds a scheduler handler,     *)
(* submits the job through the scheduler (or runs it locally) and records  *)
(* a report in cmd_report.json.                                            *)
(*                                                                         *)
(* Python strings are TLA+ strings (sequences of one-character strings).   *)
(* A Python value held in an argument mapping is tagged: Str(s) is the     *)
(* string s and List(xs) the list of the values xs, so that the code's     *)
(* isinstance(v, list) is a test of the tag t; s holds a string's text and  *)
(* l a list's items.  A Python dict is the sequence of its items [k, v] in *)
(* insertion order.                                                        *)
(***************************************************************************)
EXTENDS Integers, Sequences, FiniteSets, TLC

VARIABLES
    pc,           \* pc[p]: where run p of the program stands
    argv,         \* argv[p]: sys.argv[1:] of run p
    handler,      \* handler[p]: the SchedulerHandler object of run p
    script_args,  \* script_args[p]: the tokens after the "--" separator
    environ,      \* environ[p]: the environment variables run p has set
    child,        \* child[p]: the child process run p has started
    sched,        \* sched[p]: stdout, returncode and job id of the scheduler
    reports,      \* reports[p]: the in-memory reports of update_cmd_report
    loaded,       \* loaded[p]: what update_cmd_report read from the file
    exit,         \* exit[p]: the exit code and the error run p ended with
    steps,        \* steps[p]: the operations run p has performed, in order
    after,        \* after[p]: the runs that had written the file when p read it
    file,         \* the contents of CMD_REPORT_FILE
    fs,           \* the scripts that exist under ROOT_DIR
    now,          \* the clock: the number of runs started so far
    fx            \* the function application of the function specifications

procvars == <<pc, argv, handler, script_args, environ, child, sched, reports,
              loaded, exit, steps, after>>
sharedvars == <<file, fs, now>>
vars == <<pc, argv, handler, script_args, environ, child, sched, reports,
          loaded, exit, steps, after, file, fs, now, fx>>

---------------------------------------------------------------------------
(* Bounds of the model. *)

\* The runs of the program one behaviour starts.
MaxRuns == 2
\* The longest token list handed to the argument parser.
MaxTokens == 3
\* The most items of an argument mapping handed to resolve_aliases.
MaxArgs == 3
\* The most occurrences of -l handed to the PBS resource merge.
MaxResourceLists == 2

---------------------------------------------------------------------------
(* Python values, strings and dicts. *)

Str(s) == [t |-> "str", s |-> s, l |-> <<>>]
List(xs) == [t |-> "list", s |-> "", l |-> xs]
IsList(x) == x.t = "list"

\* s.startswith(p)
StartsWith(s, p) == Len(s) >= Len(p) /\ SubSeq(s, 1, Len(p)) = p

\* s.find(c) for a one-character c, counted from 1; 0 when c is not in s
IndexOf(s, c) ==
    IF \E i \in 1..Len(s) : SubSeq(s, i, i) = c
    THEN CHOOSE i \in 1..Len(s) :
            /\ SubSeq(s, i, i) = c
            /\ \A j \in 1..(i - 1) : SubSeq(s, j, j) # c
    ELSE 0

\* c in s
Contains(s, c) == IndexOf(s, c) > 0

\* s.split(c, maxsplit=1) of a string that contains c
SplitFirst(s, c) ==
    LET i == IndexOf(s, c)
    IN  [k |-> SubSeq(s, 1, i - 1), v |-> SubSeq(s, i + 1, Len(s))]

\* s.split(c): the pieces of s between the occurrences of c
RECURSIVE Split(_, _)
Split(s, c) ==
    IF ~Contains(s, c) THEN <<s>>
    ELSE <<SubSeq(s, 1, IndexOf(s, c) - 1)>>
            \o Split(SubSeq(s, IndexOf(s, c) + 1, Len(s)), c)

\* sep.join(xs)
RECURSIVE Join(_, _)
Join(xs, sep) ==
    IF Len(xs) = 0 THEN ""
    ELSE IF Len(xs) = 1 THEN xs[1]
    ELSE xs[1] \o sep \o Join(Tail(xs), sep)

\* k in d
DHas(d, k) == \E i \in 1..Len(d) : d[i].k = k
\* d[k]
DGet(d, k) == d[CHOOSE i \in 1..Len(d) : d[i].k = k].v
\* d[k] = v: an existing key keeps its place, a new key goes last
DSet(d, k, v) ==
    IF DHas(d, k)
    THEN [i \in 1..Len(d) |-> IF d[i].k = k THEN [k |-> k, v |-> v] ELSE d[i]]
    ELSE Append(d, [k |-> k, v |-> v])
\* d without the key k (d.pop(k) returns DGet(d, k))
DPop(d, k) == SelectSeq(d, LAMBDA e : e.k # k)

---------------------------------------------------------------------------
(* The argument parser. *)

\* Accumulate with a repeated key overwriting its value.
AccumulateOverwrite(args, k, v) == DSet(args, k, [t |-> "str", s |-> v, l |-> <<>>])

\* args[k] = args[k] + [v] if isinstance(args[k], list) else [args[k], v]
\* for a key already in args; args[k] = v for a new one
Accumulate(args, k, v) ==
    IF DHas(args, k)
    THEN DSet(args, k,
              IF IsList(DGet(args, k))
              THEN List(Append(DGet(args, k).l, Str(v)))
              ELSE List(<<DGet(args, k), Str(v)>>))
    ELSE DSet(args, k, Str(v))

\* The while loop of arglist2dicts from index i (counted from 1).
RECURSIVE arglist2dicts_loop(_, _, _, _)
arglist2dicts_loop(arg_list, i, args, flags) ==
    IF i > Len(arg_list)
    THEN [err |-> "none", args |-> args, flags |-> flags]
    ELSE LET cur_arg == arg_list[i] IN
         IF ~StartsWith(cur_arg, "-")
         THEN [err |-> "MalformedArgument", args |-> <<>>, flags |-> <<>>]
         ELSE IF Contains(cur_arg, "=")
         THEN arglist2dicts_loop(arg_list, i + 1,
                  Accumulate(args, SplitFirst(cur_arg, "=").k,
                             SplitFirst(cur_arg, "=").v),
                  flags)
         ELSE IF i + 1 > Len(arg_list) \/ StartsWith(arg_list[i + 1], "-")
         THEN arglist2dicts_loop(arg_list, i + 1, args, Append(flags, cur_arg))
         ELSE arglist2dicts_loop(arg_list, i + 2,
                  Accumulate(args, cur_arg, arg_list[i + 1]), flags)

\* arglist2dicts: the arguments and the flags of a token list, or the
\* ValueError of a token that should start with - (MalformedArgument)
arglist2dicts(arg_list) == arglist2dicts_loop(arg_list, 1, <<>>, <<>>)

\* the index of the first "--" token, or Len + 1 when there is none
SplitIdx(all_args) ==
    IF \E i \in 1..Len(all_args) : all_args[i] = "--"
    THEN CHOOSE i \in 1..Len(all_args) :
            /\ all_args[i] = "--"
            /\ \A j \in 1..(i - 1) : all_args[j] # "--"
    ELSE Len(all_args) + 1

\* parse_arguments: the scheduler tokens before "--" parsed, the rest kept
parse_arguments(all_args) ==
    [parsed |-> arglist2dicts(SubSeq(all_args, 1, SplitIdx(all_args) - 1)),
     script_args |-> SubSeq(all_args, SplitIdx(all_args) + 1, Len(all_args))]

---------------------------------------------------------------------------
(* The defaults and their merge under the user's arguments. *)

\* The contents of <ROOT_DIR>/default.json: the cluster-independent section
\* and one section per cluster.
DefaultJson ==
    <<[k |-> "__all__",
       v |-> <<[k |-> "--mail-user", v |-> Str("me@x.org")],
               [k |-> "--time", v |-> Str("1:00")]>>],
      [k |-> "plai", v |-> <<[k |-> "--time", v |-> Str("2:00")]>>],
      [k |-> "cedar", v |-> <<[k |-> "--account", v |-> Str("def")]>>]>>

\* for k, v in items: d[k] = v
RECURSIVE DUpdate(_, _)
DUpdate(d, items) ==
    IF Len(items) = 0 THEN d
    ELSE DUpdate(DSet(d, items[1].k, items[1].v), Tail(items))

\* default_scheduler_args: the __all__ section, then the cluster's section
\* over it; the address must be set (ConfigError otherwise).  mail_adr is
\* the value of _MY_SCHEDULER_EMAIL, "" when it is not set.
default_scheduler_args(json_data, cluster_name, mail_adr) ==
    LET all == IF DHas(json_data, "__all__")
               THEN DGet(json_data, "__all__") ELSE <<>>
        bad_all == /\ DHas(all, "--mail-user")
                   /\ Len(DGet(all, "--mail-user").s) = 0
        d == DUpdate(DUpdate(<<>>, all), DGet(json_data, cluster_name))
    IN  IF bad_all \/ ~DHas(d, "--mail-user")
        THEN [err |-> "ConfigError", args |-> <<>>]
        ELSE IF DGet(d, "--mail-user") = Str("<YOUR_EMAIL_GOES_HERE>")
        THEN IF mail_adr = ""
             THEN [err |-> "ConfigError", args |-> <<>>]
             ELSE [err |-> "none",
                   args |-> DSet(d, "--mail-user", Str(mail_adr))]
        ELSE [err |-> "none", args |-> d]

\* updated_args[k] = v for a key the defaults do not have; otherwise
\* updated_args[k] + [v] if isinstance(updated_args[k], list)
\* else [updated_args[k], v]
MergeOne(updated_args, k, v) ==
    IF ~DHas(updated_args, k)
    THEN DSet(updated_args, k, v)
    ELSE DSet(updated_args, k,
              IF IsList(DGet(updated_args, k))
              THEN List(Append(DGet(updated_args, k).l, v))
              ELSE List(<<DGet(updated_args, k), v>>))

\* The loop of get_scheduler_handler that adds the user's arguments to the
\* defaults.
RECURSIVE MergeDefaults(_, _)
MergeDefaults(updated_args, scheduler_args) ==
    IF Len(scheduler_args) = 0 THEN updated_args
    ELSE MergeDefaults(
             MergeOne(updated_args, scheduler_args[1].k, scheduler_args[1].v),
             Tail(scheduler_args))

\* v[-1] if isinstance(v, list) else v
LastOf(v) == IF IsList(v) THEN v.l[Len(v.l)] ELSE v

\* SLURMHandler.resolve_multi_args
SLURM_resolve_multi_args(args) ==
    [i \in 1..Len(args) |-> [k |-> args[i].k, v |-> LastOf(args[i].v)]]

---------------------------------------------------------------------------
(* PBSHandler.resolve_multi_args: the merge of the -l resource lists. *)

\* ResourceSet with the first value of a resource kept.
ResourceSetKeepFirst(resource_dict, k, v) ==
    IF DHas(resource_dict, k) THEN resource_dict ELSE DSet(resource_dict, k, v)

\* resource_dict[k] = v
ResourceSet(resource_dict, k, v) == DSet(resource_dict, k, v)

\* for resource in resource_list.split(","): k, v = resource.split("=", 1);
\* resource_dict[k] = v.  A resource without = cannot be unpacked.
RECURSIVE ResourceFold(_, _)
ResourceFold(acc, resources) ==
    IF acc.err # "none" \/ Len(resources) = 0 THEN acc
    ELSE IF ~Contains(resources[1], "=")
    THEN [err |-> "ValueError", d |-> <<>>]
    ELSE ResourceFold(
             [err |-> "none",
              d |-> ResourceSet(acc.d, SplitFirst(resources[1], "=").k,
                                SplitFirst(resources[1], "=").v)],
             Tail(resources))

\* for resource_list in self.args["-l"]: ...  An item that is itself a list
\* has no split.
RECURSIVE ResourceLists(_, _)
ResourceLists(acc, lists) ==
    IF acc.err # "none" \/ Len(lists) = 0 THEN acc
    ELSE IF IsList(lists[1]) THEN [err |-> "AttributeError", d |-> <<>>]
    ELSE ResourceLists(ResourceFold(acc, Split(lists[1].s, ",")), Tail(lists))

\* ",".join(["{}={}".format(k, v) for k, v in resource_dict.items()])
ResourcesStr(resource_dict) ==
    Join([i \in 1..Len(resource_dict) |->
             resource_dict[i].k \o "=" \o resource_dict[i].v], ",")

PBS_resolve_multi_args(args) ==
    LET others == SelectSeq(args, LAMBDA e : e.k # "-l")
        args_updated ==
            [i \in 1..Len(others) |->
                [k |-> others[i].k, v |-> LastOf(others[i].v)]]
        l == DGet(args, "-l")
        merged == ResourceLists([err |-> "none", d |-> <<>>],
                                IF IsList(l) THEN l.l ELSE <<l>>)
    IN  IF ~DHas(args, "-l") THEN [err |-> "none", args |-> args_updated]
        ELSE IF merged.err # "none" THEN [err |-> merged.err, args |-> <<>>]
        ELSE [err |-> "none",
              args |-> Append(args_updated,
                              [k |-> "-l", v |-> Str(ResourcesStr(merged.d))])]

---------------------------------------------------------------------------
(* The handler: SchedulerHandler.__init__ and SLURMHandler.__init__. *)

\* ROOT_DIR / name
RootDir(name) == "ROOT_DIR/" \o name
\* ROOT_DIR / "_run.sh"
DefaultScript == RootDir("_run.sh")
\* REPORTS_DIR = EXP_DIR / "batch_job_reports"
REPORTS_DIR == "EXP_DIR/batch_job_reports"

\* SLURMHandler.job_name_arguments
job_name_arguments == <<"-J", "--job-name">>

\* the failure of a step: an exception leaves the object as it was
Raise(self, e) == [self EXCEPT !.err = e]

\* IsLocal with the flag never seen.
IsLocalNever(flags) == FALSE

\* self.local of __init__: "--local" in self.flags
IsLocal(flags) == \E i \in 1..Len(flags) : flags[i] = "--local"

\* self.flags.remove("--local"): the first occurrence goes
RemoveFirst(flags, x) ==
    LET i == CHOOSE j \in 1..Len(flags) :
                 flags[j] = x /\ \A m \in 1..(j - 1) : flags[m] # x
    IN  SubSeq(flags, 1, i - 1) \o SubSeq(flags, i + 1, Len(flags))

\* verify_args as it would be if it did not require a job name
verify_args_lenient(self) ==
    LET s == [self EXCEPT !.log = Append(@, "verify_args")] IN
    IF DHas(s.args, "--script") /\ ~IsList(DGet(s.args, "--script"))
    THEN [s EXCEPT !.submit_job_script = RootDir(DGet(s.args, "--script").s),
                   !.args = DPop(@, "--script")]
    ELSE s

\* verify_args: a job name is required; --script selects the script
verify_args(self) ==
    LET s == [self EXCEPT !.log = Append(@, "verify_args")] IN
    IF \A i \in 1..Len(job_name_arguments) :
           ~DHas(s.args, job_name_arguments[i])
    THEN Raise(s, "MissingJobName")
    ELSE IF DHas(s.args, "--script")
    THEN IF IsList(DGet(s.args, "--script"))
         THEN Raise([s EXCEPT !.args = DPop(@, "--script")], "TypeError")
         ELSE [s EXCEPT !.submit_job_script =
                            RootDir(DGet(s.args, "--script").s),
                        !.args = DPop(@, "--script")]
    ELSE s

\* "{}".format(v): a string as it is, a list as Python prints it
RECURSIVE PyStr(_)
PyStr(v) ==
    IF IsList(v)
    THEN "[" \o Join([i \in 1..Len(v.l) |->
                         IF IsList(v.l[i]) THEN PyStr(v.l[i])
                         ELSE "'" \o v.l[i].s \o "'"], ", ") \o "]"
    ELSE v.s
\* GpuGres without the gpu: prefix.
GpuGresBare(v) == v

\* "gpu:{}".format(v)
GpuGres(v) == Str("gpu:" \o PyStr(v))

\* SLURMHandler.resolve_aliases on the mapping: --cores and --gpu
ResolveAliases(args) ==
    LET cores == DHas(args, "--cores")
        a1 == IF cores
              THEN DSet(DPop(args, "--cores"), "--cpus-per-task",
                        DGet(args, "--cores"))
              ELSE args
        gpu == DHas(a1, "--gpu")
        a2 == IF gpu
              THEN DSet(DPop(a1, "--gpu"), "--gres", GpuGres(DGet(a1, "--gpu")))
              ELSE a1
    IN  IF cores /\ DHas(args, "--cpus-per-task")
        THEN [err |-> "ConflictingAlias", args |-> args]
        ELSE IF gpu /\ DHas(a1, "--gres")
        THEN [err |-> "ConflictingAlias", args |-> a1]
        ELSE [err |-> "none", args |-> a2]

\* SLURMHandler.resolve_aliases
resolve_aliases(self) ==
    LET s == [self EXCEPT !.log = Append(@, "resolve_aliases")]
        r == ResolveAliases(s.args)
    IN  IF r.err # "none" THEN Raise([s EXCEPT !.args = r.args], r.err)
        ELSE [s EXCEPT !.args = r.args]

\* SLURMHandler.set_logging_paths
set_logging_paths(self) ==
    LET s == [self EXCEPT !.log = Append(@, "set_logging_paths")] IN
    IF ~DHas(s.args, "--output") /\ ~DHas(s.args, "-o")
    THEN IF DHas(s.args, "--array") \/ DHas(s.args, "-a")
         THEN [s EXCEPT !.args = DSet(@, "--output",
                   Str(s.reports_dir \o "/results-%A_%a-%x.out"))]
         ELSE [s EXCEPT !.args = DSet(@, "--output",
                   Str(s.reports_dir \o "/results-%j-%x.out"))]
    ELSE s

\* assert self.submit_job_script.exists()
AssertScript(self, files) ==
    IF self.submit_job_script \in files THEN self
    ELSE Raise(self, "MissingScript")

\* SchedulerHandler.__init__ for the SLURM handler, over the files that exist
SchedulerHandler_init(args, flags, cluster_name, files) ==
    LET s0 == [cluster_name |-> cluster_name,
               args |-> SLURM_resolve_multi_args(args),
               flags |-> flags,
               local |-> FALSE,
               submisison_command |-> "",
               submit_job_script |-> "",
               reports_dir |-> "",
               err |-> "none",
               log |-> <<"resolve_multi_args">>]
        \* each step runs unless an earlier one raised
        s1 == verify_args([s0 EXCEPT !.submit_job_script = DefaultScript,
                                     !.reports_dir = REPORTS_DIR])
        s2 == IF s1.err # "none" THEN s1 ELSE resolve_aliases(s1)
        s3 == IF s2.err # "none" THEN s2 ELSE AssertScript(s2, files)
        s4 == IF s3.err # "none" THEN s3 ELSE set_logging_paths(s3)
    IN  IF IsLocal(flags)
        THEN [s0 EXCEPT !.flags = RemoveFirst(flags, "--local"),
                        !.local = TRUE]
        ELSE s4

\* SLURMHandler.__init__: the base constructor, then the command and the
\* script are set and the script must exist
SLURMHandler_init(args, flags, cluster_name, files) ==
    LET s == SchedulerHandler_init(args, flags, cluster_name, files)
    IN  IF s.err # "none" THEN s
        ELSE AssertScript([s EXCEPT !.submisison_command = "sbatch",
                                    !.submit_job_script = DefaultScript],
                          files)

\* the clusters get_scheduler_handler knows as SLURM ones, and as PBS ones
SLURM_machines ==
    {"plai", "submit-ml", "cedar", "narval", "beluga", "arc", "vulcan",
     "rorqual", "fir"}
PBS_machines == {}

\* get_scheduler_handler: the defaults, the user's arguments over them, and
\* the handler of the cluster's scheduler
get_scheduler_handler(cluster_name, scheduler_args, scheduler_flags, files) ==
    LET d == default_scheduler_args(DefaultJson, cluster_name, "")
        none == [cluster_name |-> cluster_name, args |-> <<>>,
                 flags |-> <<>>, local |-> FALSE, submisison_command |-> "",
                 submit_job_script |-> "", reports_dir |-> "",
                 err |-> "none", log |-> <<>>]
    IN  IF d.err # "none" THEN Raise(none, d.err)
        ELSE IF cluster_name \in SLURM_machines
        THEN SLURMHandler_init(MergeDefaults(d.args, scheduler_args),
                               scheduler_flags, cluster_name, files)
        ELSE Raise(none, "ClusterUnrecognized")

---------------------------------------------------------------------------
(* submit: the command line, the environment and the job id. *)

\* str(EXP_DIR)
EXP_DIR == "EXP_DIR"

\* ExportEnv with nothing set.
ExportEnvNothing(env, kwargs) == env

\* export_args of the SLURM handler: os.environ[k] = v for every variable
ExportEnv(env, kwargs) == DUpdate(env, kwargs)
\* what export_args returns
ExportFlag == "--export=ALL"

\* export_vars of submit
ExportVars(script_args_str) ==
    <<[k |-> "_MY_CMD", v |-> script_args_str],
      [k |-> "_MY_EXPDIR", v |-> EXP_DIR],
      [k |-> "IS_BATCH_JOB", v |-> "1"]>>

\* scheduler_args_str of submit, the export flag included
SchedulerArgsStr(self) ==
    Join([i \in 1..Len(self.args) |->
             self.args[i].k \o " " \o PyStr(self.args[i].v)], " ")
        \o " " \o Join(self.flags, " ") \o " " \o ExportFlag

\* cmd of submit: the command, the arguments and the submission script
SubmitCmd(self) ==
    Join(<<self.submisison_command, SchedulerArgsStr(self),
           self.submit_job_script>>, " ")

\* the environment of submit when the scheduler command is started
SubmitEnv(env, self, script_args_str) ==
    DSet(DSet(ExportEnv(env, ExportVars(script_args_str)),
              "_MY_SCHEDULER_CMD", SubmitCmd(self)),
         "_MY_BATCH_JOB", "1")

IsDigit(c) == c \in {"0", "1", "2", "3", "4", "5", "6", "7", "8", "9"}

\* the end of the longest run of digits of s that starts at i (i - 1: none)
RECURSIVE DigitsEnd(_, _)
DigitsEnd(s, i) ==
    IF i <= Len(s) /\ IsDigit(SubSeq(s, i, i)) THEN DigitsEnd(s, i + 1)
    ELSE i - 1

JobPrefix == "Submitted batch job "

\* re.findall(prefix + r"[0-9]+", s): the matches from index i on, left to
\* right, none overlapping
RECURSIVE FindAll(_, _)
FindAll(s, i) ==
    IF i > Len(s) THEN <<>>
    ELSE LET d == i + Len(JobPrefix)
             e == DigitsEnd(s, d)
         IN  IF /\ Len(s) >= d
                /\ SubSeq(s, i, d - 1) = JobPrefix
                /\ e >= d
             THEN <<SubSeq(s, i, e)>> \o FindAll(s, e + 1)
             ELSE FindAll(s, i + 1)

\* jobid_from_stdout as it would be if it took the first match of several
jobid_from_stdout_first(stdout) ==
    LET msg == FindAll(stdout, 1) IN
    IF Len(msg) = 0
    THEN [err |-> "UnexpectedSchedulerOutput", jobid |-> ""]
    ELSE [err |-> "none",
          jobid |-> SubSeq(msg[1], Len(JobPrefix) + 1, Len(msg[1]))]

\* SLURMHandler.jobid_from_stdout: exactly one match, or the assertion fails
jobid_from_stdout(stdout) ==
    LET msg == FindAll(stdout, 1) IN
    IF Len(msg) # 1
    THEN [err |-> "UnexpectedSchedulerOutput", jobid |-> ""]
    ELSE [err |-> "none",
          jobid |-> SubSeq(msg[1], Len(JobPrefix) + 1, Len(msg[1]))]

\* PBSHandler.jobid_from_stdout: what comes before the first "." of a
\* non-empty output, or the assertion fails
PBS_jobid_from_stdout(stdout) ==
    IF ~(Len(stdout) > 0)
    THEN [err |-> "UnexpectedSchedulerOutput", jobid |-> ""]
    ELSE [err |-> "none", jobid |-> Split(stdout, ".")[1]]

\* What qsub may print.
PBS_Stdouts == {"", "1234.pbs01\n", "qsub: error: unknown queue\n", "42\n"}

\* what submit returns: nothing in local mode, the scheduler's returncode
\* otherwise
PyNone == [t |-> "none", v |-> 0]
PyInt(n) == [t |-> "int", v |-> n]
\* SubmitResult with the return forgotten.
SubmitResultNone(local, returncode) == PyNone

SubmitResult(local, returncode) ==
    IF local THEN PyNone ELSE PyInt(returncode)

\* sys.exit(x): the exit code of the program
SysExit(x) == IF x.t = "none" THEN 0 ELSE x.v % 256

\* an exception that reaches the top level ends the program with code 1
Uncaught(e) == [code |-> 1, err |-> e]

---------------------------------------------------------------------------
(* update_cmd_report and the report file. *)

DigitChars == <<"0", "1", "2", "3", "4", "5", "6", "7", "8", "9">>

\* int(s) of a string of digits
RECURSIVE IntOf(_)
IntOf(s) ==
    IF Len(s) = 0 THEN 0
    ELSE 10 * IntOf(SubSeq(s, 1, Len(s) - 1))
            + ((CHOOSE n \in 1..10 : DigitChars[n] = SubSeq(s, Len(s), Len(s))) - 1)

\* str(n) of a natural number
RECURSIVE StrOf(_)
StrOf(n) ==
    IF n < 10 THEN DigitChars[n + 1]
    ELSE StrOf(n \div 10) \o DigitChars[(n % 10) + 1]

\* The keys of the in-memory job mapping: the strings json.load gives and
\* the int update_cmd_report uses.
StrKey(s) == [t |-> "str", s |-> s, n |-> 0]
IntKey(n) == [t |-> "int", s |-> "", n |-> n]

\* json.dump writes every key as a string, an int key as its digits, item by
\* item in the dict's order.  The reports hold strings, lists and mappings
\* keyed by strings, which the file gives back as they were.
JsonKey(key) == IF key.t = "int" THEN StrOf(key.n) ELSE key.s
json_dump(r) ==
    [i \in 1..Len(r) |->
        [k |-> r[i].k,
         v |-> [j \in 1..Len(r[i].v) |->
                   [k |-> JsonKey(r[i].v[j].k), v |-> r[i].v[j].v]]]]

\* json.load: every key is a string; of two items with one key the later
\* value stays
RECURSIVE LoadJobs(_, _)
LoadJobs(d, items) ==
    IF Len(items) = 0 THEN d
    ELSE LoadJobs(DSet(d, StrKey(items[1].k), items[1].v), Tail(items))
json_load(doc) ==
    [i \in 1..Len(doc) |-> [k |-> doc[i].k, v |-> LoadJobs(<<>>, doc[i].v)]]

NoFile == [exists |-> FALSE, doc |-> <<>>]

\* the first lines of update_cmd_report: the reports of the file, {} when
\* there is none
LoadReports(f) == IF f.exists THEN json_load(f.doc) ELSE <<>>

\* get_job_name: the value of the first job-name argument present
get_job_name(self) ==
    IF DHas(self.args, job_name_arguments[1])
    THEN DGet(self.args, job_name_arguments[1])
    ELSE DGet(self.args, job_name_arguments[2])

NewReport(self, script_args_str, time) ==
    [name |-> get_job_name(self),
     cmd |-> script_args_str,
     exp_dir |-> EXP_DIR,
     scheduler_args |-> self.args,
     scheduler_flags |-> self.flags,
     submission_time |-> time]

\* if jobid in reports[self.cluster_name]
JobIdKnown(jobs, jobid) == DHas(jobs, IntKey(jobid))

\* update_cmd_report as it would be if it started from an empty mapping
\* instead of the reports it loaded
UpdateReportsFresh(rep, self, script_args_str, jobid_str, time) ==
    [dup |-> FALSE,
     reports |-> <<[k |-> self.cluster_name,
                    v |-> <<[k |-> IntKey(IntOf(jobid_str)),
                             v |-> NewReport(self, script_args_str, time)]>>]>>]

\* The body of update_cmd_report between the load and the write: dup says
\* that the job id was found and nothing is to be written.
UpdateReports(rep, self, script_args_str, jobid_str, time) ==
    LET r1 == IF DHas(rep, self.cluster_name) THEN rep
              ELSE DSet(rep, self.cluster_name, <<>>)
        jobid == IntOf(jobid_str)
        jobs == DGet(r1, self.cluster_name)
    IN  IF JobIdKnown(jobs, jobid)
        THEN [dup |-> TRUE, reports |-> r1]
        ELSE [dup |-> FALSE,
              reports |-> DSet(r1, self.cluster_name,
                               DSet(jobs, IntKey(jobid),
                                    NewReport(self, script_args_str, time)))]

---------------------------------------------------------------------------
(* The runs of the program. *)

\* The runs that may be in progress at once.
Procs == {1, 2}

\* What get_cluster_name answers.
Clusters == {"plai", "cedar"}

\* The command lines of the runs (sys.argv[1:]).
CommandLines ==
    {<<"-J", "foo", "--", "python", "train.py">>,
     <<"-J", "foo", "--local", "--", "python", "train.py">>,
     <<"--local", "--", "false">>,
     <<"-J", "foo", "--script", "alt.sh", "--", "run">>,
     <<"--cores", "4", "--", "run">>,
     <<"--job-name=bar", "--cores", "4", "--cpus-per-task", "2", "--", "run">>,
     <<"-J", "foo", "--gpu", "1", "--array=1-3", "--", "run">>,
     <<"-J", "foo", "bar", "--", "run">>,
     <<"-J", "foo", "--time", "3:00", "--time", "4:00", "--", "run">>}

\* The scripts that may exist under ROOT_DIR.
ScriptSets ==
    {{DefaultScript, RootDir("alt.sh")}, {DefaultScript}, {RootDir("alt.sh")}}

\* What the scheduler command may print and return.
Stdouts ==
    {"",
     "sbatch: error: invalid option\n",
     "Submitted batch job 7\n",
     "Submitted batch job 8\n",
     "Submitted batch job 7\nSubmitted batch job 8\n"}
Returncodes == {0, 1, 3}
\* The exit codes of the script run in local mode.
ScriptExits == {0, 2}

NoHandler ==
    [cluster_name |-> "", args |-> <<>>, flags |-> <<>>, local |-> FALSE,
     submisison_command |-> "", submit_job_script |-> "", reports_dir |-> "",
     err |-> "none", log |-> <<>>]
NoChild == [kind |-> "none", cmd |-> "", env |-> <<>>, exit |-> -1]
NoSched == [stdout |-> "", returncode |-> -1, jobid |-> ""]
NoExit == [code |-> -1, err |-> "none"]
NoCall == [op |-> "none"]

InitProcs ==
    /\ pc = [p \in Procs |-> "idle"]
    /\ argv = [p \in Procs |-> <<>>]
    /\ handler = [p \in Procs |-> NoHandler]
    /\ script_args = [p \in Procs |-> <<>>]
    /\ environ = [p \in Procs |-> <<>>]
    /\ child = [p \in Procs |-> NoChild]
    /\ sched = [p \in Procs |-> NoSched]
    /\ reports = [p \in Procs |-> <<>>]
    /\ loaded = [p \in Procs |-> <<>>]
    /\ exit = [p \in Procs |-> NoExit]
    /\ steps = [p \in Procs |-> <<>>]
    /\ after = [p \in Procs |-> {}]

Init ==
    /\ InitProcs
    /\ file = NoFile
    /\ fs \in ScriptSets
    /\ now = 0
    /\ fx = NoCall

\* The program up to the call of submit, given one of the command lines:
\* the arguments are parsed, the cluster is identified and the handler is
\* constructed.
Run(p, lines) ==
    /\ pc[p] = "idle"
    /\ now < MaxRuns
    /\ \E a \in lines, c \in Clusters :
          LET pa == parse_arguments(a)
              base == SchedulerHandler_init(
                          MergeDefaults(
                              default_scheduler_args(DefaultJson, c, "").args,
                              pa.parsed.args),
                          pa.parsed.flags, c, fs)
              h == get_scheduler_handler(c, pa.parsed.args, pa.parsed.flags, fs)
          IN  /\ argv' = [argv EXCEPT ![p] = a]
              /\ script_args' = [script_args EXCEPT ![p] = pa.script_args]
              /\ IF pa.parsed.err # "none"
                 THEN /\ exit' = [exit EXCEPT ![p] = Uncaught(pa.parsed.err)]
                      /\ pc' = [pc EXCEPT ![p] = "exited"]
                      /\ UNCHANGED <<handler, steps, fs>>
                 ELSE /\ handler' = [handler EXCEPT ![p] = h]
                      /\ steps' = [steps EXCEPT ![p] = h.log]
                      \* self.reports_dir.mkdir(exist_ok=True)
                      /\ fs' = IF ~base.local /\ base.err = "none"
                               THEN fs \cup {REPORTS_DIR} ELSE fs
                      /\ IF h.err # "none"
                         THEN /\ exit' = [exit EXCEPT ![p] = Uncaught(h.err)]
                              /\ pc' = [pc EXCEPT ![p] = "exited"]
                         ELSE /\ pc' = [pc EXCEPT ![p] = "submit"]
                              /\ UNCHANGED exit
    /\ now' = now + 1
    /\ UNCHANGED <<environ, child, sched, reports, loaded, after, file, fx>>

\* A run started with any of the command lines.
Start(p) == Run(p, CommandLines)

\* A run started while no other run is in progress.
Main(p) ==
    /\ \A q \in Procs \ {p} : pc[q] = "idle"
    /\ Start(p)

\* submit in local mode: os.system(" ".join(script_args)) runs the script
\* to its end; the program then exits with what submit returned.
SubmitLocal(p) ==
    /\ pc[p] = "submit"
    /\ handler[p].local
    /\ \E status \in ScriptExits :
          child' = [child EXCEPT ![p] =
                       [kind |-> "local", cmd |-> Join(script_args[p], " "),
                        env |-> environ[p], exit |-> status]]
    /\ steps' = [steps EXCEPT ![p] = @ \o <<"submit", "os.system">>]
    /\ exit' = [exit EXCEPT ![p] =
                   [code |-> SysExit(SubmitResult(TRUE, -1)), err |-> "none"]]
    /\ pc' = [pc EXCEPT ![p] = "exited"]
    /\ UNCHANGED <<argv, handler, script_args, environ, sched, reports,
                   loaded, after, file, fs, now, fx>>

\* submit in scheduler mode up to subprocess.Popen: the variables are
\* exported, the command is built and the scheduler is started.
SubmitSpawn(p) ==
    /\ pc[p] = "submit"
    /\ ~handler[p].local
    /\ LET env == SubmitEnv(environ[p], handler[p], Join(script_args[p], " "))
       IN  /\ environ' = [environ EXCEPT ![p] = env]
           /\ child' = [child EXCEPT ![p] =
                           [kind |-> "scheduler", cmd |-> SubmitCmd(handler[p]),
                            env |-> env, exit |-> -1]]
    /\ steps' = [steps EXCEPT ![p] = @ \o <<"submit", "Popen">>]
    /\ pc' = [pc EXCEPT ![p] = "waiting"]
    /\ UNCHANGED <<argv, handler, script_args, sched, reports, loaded, exit,
                   after, file, fs, now, fx>>

\* The scheduler command ends: its output is read and the job id extracted.
SchedulerExit(p) ==
    /\ pc[p] = "waiting"
    /\ \E out \in Stdouts, rc \in Returncodes :
          LET j == jobid_from_stdout(out) IN
          /\ child' = [child EXCEPT ![p].exit = rc]
          /\ sched' = [sched EXCEPT ![p] =
                          [stdout |-> out, returncode |-> rc, jobid |-> j.jobid]]
          /\ IF j.err # "none"
             THEN /\ exit' = [exit EXCEPT ![p] = Uncaught(j.err)]
                  /\ pc' = [pc EXCEPT ![p] = "exited"]
             ELSE /\ pc' = [pc EXCEPT ![p] = "update"]
                  /\ UNCHANGED exit
    /\ UNCHANGED <<argv, handler, script_args, environ, reports, loaded,
                   steps, after, file, fs, now, fx>>

\* update_cmd_report up to the write: the file is read and the report is
\* added unless the job id is found; then submit returns.
UpdateLoad(p) ==
    /\ pc[p] = "update"
    /\ LET rep == LoadReports(file)
           u == UpdateReports(rep, handler[p], Join(script_args[p], " "),
                              sched[p].jobid, now)
       IN  /\ loaded' = [loaded EXCEPT ![p] = rep]
           /\ after' = [after EXCEPT ![p] =
                  {q \in Procs \ {p} :
                      pc[q] = "exited"
                      /\ \E i \in 1..Len(steps[q]) : steps[q][i] = "json.dump"}]
           /\ reports' = [reports EXCEPT ![p] = u.reports]
           /\ steps' = [steps EXCEPT ![p] = Append(@, "update_cmd_report")]
           /\ IF u.dup
              THEN /\ pc' = [pc EXCEPT ![p] = "exited"]
                   /\ exit' = [exit EXCEPT ![p] =
                          [code |-> SysExit(SubmitResult(FALSE,
                                                sched[p].returncode)),
                           err |-> "none"]]
              ELSE /\ pc' = [pc EXCEPT ![p] = "write"]
                   /\ UNCHANGED exit
    /\ UNCHANGED <<argv, handler, script_args, environ, child, sched, file,
                   fs, now, fx>>

\* The end of update_cmd_report: the whole file is rewritten; submit returns
\* and the program exits with the code it returned.
UpdateWrite(p) ==
    /\ pc[p] = "write"
    /\ file' = [exists |-> TRUE, doc |-> json_dump(reports[p])]
    /\ steps' = [steps EXCEPT ![p] = Append(@, "json.dump")]
    /\ exit' = [exit EXCEPT ![p] =
                   [code |-> SysExit(SubmitResult(FALSE, sched[p].returncode)),
                    err |-> "none"]]
    /\ pc' = [pc EXCEPT ![p] = "exited"]
    /\ UNCHANGED <<argv, handler, script_args, environ, child, sched, reports,
                   loaded, after, fs, now, fx>>

\* The process of a run that ended is gone; another run may start.
Reap(p) ==
    /\ pc[p] = "exited"
    /\ pc' = [pc EXCEPT ![p] = "idle"]
    /\ argv' = [argv EXCEPT ![p] = <<>>]
    /\ handler' = [handler EXCEPT ![p] = NoHandler]
    /\ script_args' = [script_args EXCEPT ![p] = <<>>]
    /\ environ' = [environ EXCEPT ![p] = <<>>]
    /\ child' = [child EXCEPT ![p] = NoChild]
    /\ sched' = [sched EXCEPT ![p] = NoSched]
    /\ reports' = [reports EXCEPT ![p] = <<>>]
    /\ loaded' = [loaded EXCEPT ![p] = <<>>]
    /\ exit' = [exit EXCEPT ![p] = NoExit]
    /\ steps' = [steps EXCEPT ![p] = <<>>]
    /\ after' = [q \in Procs |-> IF q = p THEN {} ELSE after[q] \ {p}]
    /\ UNCHANGED <<file, fs, now, fx>>

Next ==
    \E p \in Procs :
        \/ Main(p)
        \/ SubmitLocal(p)
        \/ SubmitSpawn(p)
        \/ SchedulerExit(p)
        \/ UpdateLoad(p)
        \/ UpdateWrite(p)
        \/ Reap(p)

Spec == Init /\ [][Next]_vars

\* Runs of the program started by several users at once: nothing makes a
\* run wait for another, and CMD_REPORT_FILE is read and written without a
\* lock.
RaceCommandLines ==
    {<<"-J", "foo", "--", "python", "train.py">>,
     <<"-J", "foo", "--local", "--", "python", "train.py">>}

\* A run started whatever the other runs are doing.
StartRace(p) == Run(p, RaceCommandLines)

NextRace ==
    \E p \in Procs :
        \/ StartRace(p)
        \/ SubmitLocal(p)
        \/ SubmitSpawn(p)
        \/ SchedulerExit(p)
        \/ UpdateLoad(p)
        \/ UpdateWrite(p)
        \/ Reap(p)

SpecRace == Init /\ [][NextRace]_vars

---------------------------------------------------------------------------
(* The functions applied to inputs of their own: the parser, the merge of  *)
(* the defaults, the alias resolution and the PBS resource merge.          *)

\* the sequences over S of length at most n
SeqsUpTo(S, n) == UNION {[1..m -> S] : m \in 0..n}

\* The tokens handed to the parser.
ParseTokens == {"-a", "-b", "-a=1", "-a=2", "-b=1", "-a=x=y", "x", "y"}
TokenLists == SeqsUpTo(ParseTokens, MaxTokens)

\* The defaults the user's arguments are merged over.
DefaultChoices ==
    {<<>>,
     <<[k |-> "-a", v |-> Str("d")]>>,
     <<[k |-> "-b", v |-> Str("e")], [k |-> "-a", v |-> Str("d")]>>,
     <<[k |-> "-a", v |-> List(<<Str("d1"), Str("d2")>>)]>>}

\* The argument mappings handed to resolve_aliases: at most MaxArgs items
\* with distinct keys.
AliasKeys == {"--cores", "--cpus-per-task", "--gpu", "--gres", "-J"}
AliasValues == {"4", "2"}
AliasMappings ==
    {m \in SeqsUpTo([k : AliasKeys, v : {Str(x) : x \in AliasValues}], MaxArgs) :
        \A i, j \in 1..Len(m) : i # j => m[i].k # m[j].k}

\* The argument mappings handed to the PBS resolve_multi_args: -l given
\* once or several times, between other arguments.
ResourceStrs ==
    {"walltime=1:00:00", "mem=4gb,walltime=2:00:00", "mem=4gb",
     "nodes=1,mem=8gb", "walltime=2:00:00,walltime=3:00:00"}
ResourceValues ==
    {Str(x) : x \in ResourceStrs}
        \cup {List([i \in 1..Len(l) |-> Str(l[i])]) :
                 l \in SeqsUpTo(ResourceStrs, MaxResourceLists) \ {<<>>}}
PBSBefore ==
    {<<>>, <<[k |-> "-N", v |-> Str("job")]>>,
     <<[k |-> "-q", v |-> List(<<Str("short"), Str("long")>>)]>>}
PBSAfter ==
    {<<>>, <<[k |-> "-M", v |-> List(<<Str("a@x"), Str("b@x"), Str("c@x")>>)]>>}
PBSMappings ==
    {b \o a : b \in PBSBefore, a \in PBSAfter}
        \cup {b \o <<[k |-> "-l", v |-> l]>> \o a :
                 b \in PBSBefore, l \in ResourceValues, a \in PBSAfter}

NoResult == [err |-> "none", args |-> <<>>, flags |-> <<>>]

\* a function about to be applied to an argument
Call(op, arg) == [op |-> op, done |-> FALSE, arg |-> arg, res |-> NoResult]

InitFn ==
    /\ InitProcs
    /\ file = NoFile
    /\ fs = {DefaultScript}
    /\ now = 0
    /\ \/ \E t \in TokenLists : fx = Call("arglist2dicts", t)
       \/ \E d \in DefaultChoices, t \in TokenLists :
             fx = Call("merge", [defaults |-> d, tokens |-> t])
       \/ \E m \in AliasMappings : fx = Call("resolve_aliases", m)
       \/ \E m \in PBSMappings : fx = Call("pbs_resolve_multi_args", m)

\* arglist2dicts applied to a token list
ApplyParse ==
    /\ fx.op = "arglist2dicts" /\ ~fx.done
    /\ fx' = [fx EXCEPT !.done = TRUE, !.res = arglist2dicts(fx.arg)]
    /\ UNCHANGED <<procvars, sharedvars>>

\* The arguments of get_scheduler_handler as the SLURM handler keeps them:
\* parsed, merged over the defaults, and resolve_multi_args applied.
MergedArgs(defaults, tokens) ==
    LET pa == arglist2dicts(tokens) IN
    IF pa.err # "none" THEN [err |-> pa.err, args |-> <<>>, flags |-> <<>>]
    ELSE [err |-> "none",
          args |-> SLURM_resolve_multi_args(MergeDefaults(defaults, pa.args)),
          flags |-> pa.flags]

ApplyMerge ==
    /\ fx.op = "merge" /\ ~fx.done
    /\ fx' = [fx EXCEPT !.done = TRUE,
                        !.res = MergedArgs(fx.arg.defaults, fx.arg.tokens)]
    /\ UNCHANGED <<procvars, sharedvars>>

\* resolve_aliases applied to an argument mapping
ApplyAliases ==
    /\ fx.op = "resolve_aliases" /\ ~fx.done
    /\ fx' = [fx EXCEPT !.done = TRUE,
                        !.res = [err |-> ResolveAliases(fx.arg).err,
                                 args |-> ResolveAliases(fx.arg).args,
                                 flags |-> <<>>]]
    /\ UNCHANGED <<procvars, sharedvars>>

\* PBSHandler.resolve_multi_args applied to an argument mapping
ApplyPBS ==
    /\ fx.op = "pbs_resolve_multi_args" /\ ~fx.done
    /\ fx' = [fx EXCEPT !.done = TRUE,
                        !.res = [err |-> PBS_resolve_multi_args(fx.arg).err,
                                 args |-> PBS_resolve_multi_args(fx.arg).args,
                                 flags |-> <<>>]]
    /\ UNCHANGED <<procvars, sharedvars>>

NextFn == ApplyParse \/ ApplyMerge \/ ApplyAliases \/ ApplyPBS

SpecFn == InitFn /\ [][NextFn]_vars

---------------------------------------------------------------------------
(* The claims about the runs of the program, checked under Spec. *)

\* the report the store rep holds for job id jobid_str of cluster c
JobRecorded(rep, c, jobid_str) ==
    /\ DHas(rep, c)
    /\ DHas(DGet(rep, c), StrKey(StrOf(IntOf(jobid_str))))
RecordedReport(rep, c, jobid_str) ==
    DGet(DGet(rep, c), StrKey(StrOf(IntOf(jobid_str))))

\* the run p has performed the operation op
Performed(p, op) == \E i \in 1..Len(steps[p]) : steps[p][i] = op

\* C1 (as claimed): a run that records a report under a cluster and job id
\* the report file already holds does nothing: it does not go on to rewrite
\* the file, the file still holds the first report for that cluster and job
\* id, and the run ends without an error.
C1_DuplicateIsNoOp ==
    \A p \in Procs :
        (/\ pc[p] \in {"write", "exited"}
         /\ Performed(p, "update_cmd_report")
         /\ JobRecorded(loaded[p], handler[p].cluster_name, sched[p].jobid))
        => /\ pc[p] = "exited"
           /\ exit[p].err = "none"
           /\ JobRecorded(LoadReports(file), handler[p].cluster_name,
                          sched[p].jobid)
           /\ RecordedReport(LoadReports(file), handler[p].cluster_name,
                             sched[p].jobid)
                = RecordedReport(loaded[p], handler[p].cluster_name,
                                 sched[p].jobid)

\* the run p ended after its scheduler command had been started
EndedAfterScheduler(p) == pc[p] = "exited" /\ child[p].kind = "scheduler"

\* C2 (as claimed): in scheduler mode the program exits with the exit code
\* of the scheduler command, whatever the command printed, and without a
\* fatal error.
C2_ExitIsSchedulerCode ==
    \A p \in Procs :
        EndedAfterScheduler(p)
        => exit[p].code = child[p].exit /\ exit[p].err = "none"

\* C2 (amended): in scheduler mode, when the scheduler's output holds
\* exactly one "Submitted batch job <digits>", the program exits with the
\* exit code of the scheduler command, zero or not, and without a fatal
\* error; when it holds none or several, the run ends in the fatal
\* UnexpectedSchedulerOutput error with exit code 1, whatever the
\* scheduler's exit code.
C2_ExitIsSchedulerCodeWhenJobIdFound ==
    \A p \in Procs :
        EndedAfterScheduler(p)
        => IF Len(FindAll(sched[p].stdout, 1)) = 1
           THEN exit[p].code = child[p].exit /\ exit[p].err = "none"
           ELSE exit[p] = [code |-> 1, err |-> "UnexpectedSchedulerOutput"]

\* C2 witness: a run whose scheduler command returned 3 with one job id in
\* its output has ended with exit code 3.
C2_Witness ==
    \E p \in Procs :
        /\ EndedAfterScheduler(p)
        /\ Len(FindAll(sched[p].stdout, 1)) = 1
        /\ child[p].exit = 3
        /\ exit[p].code = 3

\* C3 (as claimed): in local mode the program exits with the exit code of
\* the script it ran.
C3_LocalExitIsScriptCode ==
    \A p \in Procs :
        (pc[p] = "exited" /\ child[p].kind = "local")
        => exit[p].code = child[p].exit

\* the three variables submit exports are in the environment env, with the
\* payload command of run p, the working directory and the marker
ExportedIn(env, p) ==
    /\ DHas(env, "_MY_CMD") /\ DGet(env, "_MY_CMD") = Join(script_args[p], " ")
    /\ DHas(env, "_MY_EXPDIR") /\ DGet(env, "_MY_EXPDIR") = EXP_DIR
    /\ DHas(env, "IS_BATCH_JOB") /\ DGet(env, "IS_BATCH_JOB") = "1"

\* C4 (as claimed): every child a run starts, the scheduler command or the
\* local script, is started with the three variables in its environment.
C4_EnvSetBeforeAnyChild ==
    \A p \in Procs : child[p].kind # "none" => ExportedIn(child[p].env, p)

\* C4 (amended): in scheduler mode the three variables are set in the
\* process environment before the scheduler command is started, so it
\* inherits them; in local mode the program sets none of them before it
\* runs the script.
C4_EnvSetBeforeSchedulerChild ==
    \A p \in Procs :
        /\ child[p].kind = "scheduler" => ExportedIn(child[p].env, p)
        /\ child[p].kind = "local"
           => /\ ~DHas(child[p].env, "_MY_CMD")
              /\ ~DHas(child[p].env, "_MY_EXPDIR")
              /\ ~DHas(child[p].env, "IS_BATCH_JOB")

\* C4 witness: a scheduler command has been started with a payload command
\* in its environment.
C4_Witness ==
    \E p \in Procs :
        /\ child[p].kind = "scheduler"
        /\ ExportedIn(child[p].env, p)
        /\ Len(script_args[p]) > 1

\* the scheduler arguments of run p as the handler first holds them: parsed,
\* merged over the defaults, multi-valued ones resolved
GivenArgs(p) ==
    SLURM_resolve_multi_args(
        MergeDefaults(
            default_scheduler_args(DefaultJson, handler[p].cluster_name, "").args,
            parse_arguments(argv[p]).parsed.args))

\* s.endswith(e)
EndsWith(s, e) ==
    Len(s) >= Len(e) /\ SubSeq(s, Len(s) - Len(e) + 1, Len(s)) = e

\* C5 (as claimed): with --script P among the scheduler arguments, the
\* command line submit builds ends with the path resolved from P and holds
\* no --script argument, and the construction fails with MissingScript when
\* that path does not exist.
C5_ScriptOverrideUsed ==
    \A p \in Procs :
        (/\ pc[p] \in {"submit", "waiting", "update", "write", "exited"}
         /\ parse_arguments(argv[p]).parsed.err = "none"
         /\ ~handler[p].local
         /\ DHas(GivenArgs(p), "--script")
         /\ \E i \in 1..Len(job_name_arguments) :
               DHas(GivenArgs(p), job_name_arguments[i]))
        => LET P == RootDir(DGet(GivenArgs(p), "--script").s) IN
           /\ ~DHas(handler[p].args, "--script")
           /\ P \notin fs => exit[p].err = "MissingScript"
           /\ child[p].kind = "scheduler"
              => EndsWith(child[p].cmd, " " \o P)

\* the flags of run p as they were parsed hold --local
LocalGiven(p) ==
    /\ parse_arguments(argv[p]).parsed.err = "none"
    /\ \E i \in 1..Len(parse_arguments(argv[p]).parsed.flags) :
          parse_arguments(argv[p]).parsed.flags[i] = "--local"

\* what C7 says of every run given --local: the scheduler command is never
\* started, verify_args, resolve_aliases and set_logging_paths are never
\* performed (the arguments stay as given and a missing job name is no
\* error), and the report file is never read or written
LocalSkipsScheduler(p) ==
    /\ pc[p] \in {"submit", "exited"}
    /\ \A op \in {"verify_args", "resolve_aliases", "set_logging_paths",
                  "Popen", "update_cmd_report", "json.dump"} :
          ~Performed(p, op)
    /\ handler[p].args = GivenArgs(p)
    /\ exit[p].err \notin {"MissingJobName", "ConflictingAlias"}
    /\ child[p].kind # "scheduler"

\* the run p has run its script invocation itself and ended without error
RanScriptDirectly(p) ==
    /\ exit[p].err = "none"
    /\ child[p].kind = "local"
    /\ child[p].cmd = Join(script_args[p], " ")

JobIdNotFound(p) == exit[p] = Uncaught("UnexpectedSchedulerOutput")

\* the operation a comes before the operation b in the steps of run p
Before(p, a, b) ==
    \E i, j \in 1..Len(steps[p]) :
        i < j /\ steps[p][i] = a /\ steps[p][j] = b

\* what C12 says of a state: a run whose scheduler has ended without
\* exactly one "Submitted batch job <digits>" in its output (for qsub: with
\* an empty output) has ended in UnexpectedSchedulerOutput, after the
\* scheduler ran, and has neither read nor written the report file; a run
\* that wrote the file did so after the scheduler ran, with the job id
\* extracted from its output
C12_State ==
    /\ \A p \in Procs :
          /\ (child[p].kind = "scheduler" /\ child[p].exit # -1
                 /\ Len(FindAll(sched[p].stdout, 1)) # 1)
             => /\ pc[p] = "exited" /\ JobIdNotFound(p)
                /\ Performed(p, "Popen")
                /\ child[p].exit \in Returncodes
                /\ ~Performed(p, "update_cmd_report")
                /\ ~Performed(p, "json.dump")
                /\ reports[p] = <<>>
          /\ JobIdNotFound(p) => Len(FindAll(sched[p].stdout, 1)) # 1
          /\ Performed(p, "json.dump")
             => /\ FindAll(sched[p].stdout, 1)
                     = <<JobPrefix \o sched[p].jobid>>
                /\ Before(p, "Popen", "json.dump")
                /\ JobRecorded(LoadReports(file), handler[p].cluster_name,
                               sched[p].jobid)
    /\ \A out \in PBS_Stdouts :
          /\ PBS_jobid_from_stdout(out).err = "UnexpectedSchedulerOutput"
                <=> out = ""
          /\ PBS_jobid_from_stdout(out).err = "none" <=> out # ""
    /\ PBS_jobid_from_stdout("1234.pbs01\n").jobid = "1234"

\* what C12 says of a step: the step in which a run ends in
\* UnexpectedSchedulerOutput leaves the report file as it was
C12_Step ==
    \A p \in Procs :
        (~JobIdNotFound(p) /\ JobIdNotFound(p)') => file' = file

\* C12: when no job id can be extracted from the scheduler's output (sbatch:
\* not exactly one "Submitted batch job <digits>"; qsub: an empty output)
\* the run ends in the fatal UnexpectedSchedulerOutput error after the
\* scheduler has run, and the report file is left as it was, with no report
\* for that run; the file is written only after a job id was extracted.
C12_NoReportWithoutJobId == []C12_State /\ [][C12_Step]_vars

\* C12 witness: after an earlier run wrote the report file, a run whose
\* sbatch printed two job ids and returned 0 has ended in
\* UnexpectedSchedulerOutput without touching the file.
C12_Witness ==
    \E p \in Procs :
        /\ pc[p] = "exited" /\ JobIdNotFound(p)
        /\ child[p].kind = "scheduler" /\ child[p].exit = 0
        /\ Len(FindAll(sched[p].stdout, 1)) = 2
        /\ file.exists
        /\ ~Performed(p, "update_cmd_report")

\* the steps of the handler, in the order the state machine gives them
HandlerSteps ==
    <<"verify_args", "resolve_aliases", "set_logging_paths", "submit",
      "update_cmd_report">>

\* the handler steps the run p has performed, in the order it performed them
HandlerStepsOf(p) ==
    SelectSeq(steps[p],
              LAMBDA x : \E i \in 1..Len(HandlerSteps) : HandlerSteps[i] = x)

\* the run p was given its arguments without --local
NonLocalGiven(p) ==
    /\ pc[p] # "idle"
    /\ parse_arguments(argv[p]).parsed.err = "none"
    /\ ~LocalGiven(p)

VerificationErrors == {"MissingJobName", "MissingScript", "ConflictingAlias"}

\* what C13 says of a state: the handler steps a non-local run has performed
\* are the first of verify_args, resolve_aliases, set_logging_paths, submit,
\* update_cmd_report, in that order and each once; a run without a job-name
\* argument ends in MissingJobName at verify_args; a run that ended in
\* MissingJobName, MissingScript or ConflictingAlias has started no child
\* and has neither read nor written the report file
C13_State ==
    \A p \in Procs :
        NonLocalGiven(p)
        => /\ Len(HandlerStepsOf(p)) <= Len(HandlerSteps)
           /\ HandlerStepsOf(p) = SubSeq(HandlerSteps, 1, Len(HandlerStepsOf(p)))
           /\ Len(HandlerStepsOf(p)) >= 1
           /\ (\A i \in 1..Len(job_name_arguments) :
                  ~DHas(GivenArgs(p), job_name_arguments[i]))
              <=> exit[p].err = "MissingJobName"
           /\ exit[p].err = "MissingJobName"
              => HandlerStepsOf(p) = <<"verify_args">>
           /\ exit[p].err = "ConflictingAlias"
              => HandlerStepsOf(p) = <<"verify_args", "resolve_aliases">>
           /\ exit[p].err \in VerificationErrors
              => /\ pc[p] = "exited" /\ exit[p].code = 1
                 /\ child[p] = NoChild
                 /\ \A op \in {"submit", "Popen", "update_cmd_report",
                               "json.dump"} : ~Performed(p, op)
                 /\ reports[p] = <<>> /\ loaded[p] = <<>>

\* what C13 says of a step: the step in which a run ends in MissingJobName,
\* MissingScript or ConflictingAlias leaves the report file as it was
C13_Step ==
    \A p \in Procs :
        (exit[p].err \notin VerificationErrors
            /\ exit'[p].err \in VerificationErrors)
        => file' = file /\ child'[p] = NoChild

\* C13: in non-local mode the handler steps run in the order verify_args,
\* resolve_aliases, set_logging_paths, submit, update_cmd_report, none of
\* them twice; whenever MissingJobName (no job-name argument), MissingScript
\* or ConflictingAlias is raised, no scheduler child has been started and
\* the report file has not been written in that run.
C13_StepsInOrder == []C13_State /\ [][C13_Step]_vars

\* C13 witness: after an earlier run went through the five steps and wrote
\* the report file, a run given --cores with --cpus-per-task has ended in
\* ConflictingAlias after verify_args and resolve_aliases, with no child.
C13_Witness ==
    \E p \in Procs :
        /\ NonLocalGiven(p)
        /\ exit[p].err = "ConflictingAlias"
        /\ HandlerStepsOf(p) = <<"verify_args", "resolve_aliases">>
        /\ child[p] = NoChild
        /\ file.exists

\* a run has gone through the five handler steps
C13_AllStepsReached ==
    \E p \in Procs : NonLocalGiven(p) /\ HandlerStepsOf(p) = HandlerSteps

\* a run has ended in MissingScript after set_logging_paths
C13_MissingScriptReached ==
    \E p \in Procs :
        /\ NonLocalGiven(p) /\ exit[p].err = "MissingScript"
        /\ Performed(p, "set_logging_paths")

---------------------------------------------------------------------------
(* The claims about runs in progress at once, checked under SpecRace. *)

\* the run p has written the report file and ended
Wrote(p) == pc[p] = "exited" /\ Performed(p, "json.dump")

\* the report the run p added for its job
OwnReport(p) ==
    DGet(DGet(reports[p], handler[p].cluster_name),
         IntKey(IntOf(sched[p].jobid)))

\* the store rep holds the report of run p for p's cluster and job id
HoldsReportOf(rep, p) ==
    /\ JobRecorded(rep, handler[p].cluster_name, sched[p].jobid)
    /\ RecordedReport(rep, handler[p].cluster_name, sched[p].jobid)
         = OwnReport(p)

\* as far as the cluster and job id of run o go, the store rep holds what
\* the store old held: the report o added is not in it
LacksUpdateOf(rep, old, o) ==
    LET c == handler[o].cluster_name
        j == sched[o].jobid
    IN  /\ JobRecorded(rep, c, j) <=> JobRecorded(old, c, j)
        /\ JobRecorded(rep, c, j)
           => RecordedReport(rep, c, j) = RecordedReport(old, c, j)

\* the run r wrote the file last: the file holds r's report, and the report
\* of the run o is lost
LastWriterWins(r, o) ==
    /\ file.doc = json_dump(reports[r])
    /\ HoldsReportOf(LoadReports(file), r)
    /\ LacksUpdateOf(LoadReports(file), loaded[r], o)

\* C11: the report file is updated by an unlocked load-merge-write cycle.
\* Of two runs with different job ids that have both written the file: when
\* each loaded the file before the other wrote it, the file is what the last
\* of them wrote, with that run's report and without the other's, which is
\* lost; when the cycles did not overlap, one run loading the file as the
\* other wrote it, the file holds both reports.
C11_UnlockedLoadMergeWrite ==
    \A p, q \in Procs :
        (/\ p # q /\ Wrote(p) /\ Wrote(q)
         /\ sched[p].jobid # sched[q].jobid)
        => /\ (q \notin after[p] /\ p \notin after[q])
              => LastWriterWins(p, q) \/ LastWriterWins(q, p)
           /\ (p \in after[q] /\ loaded[q] = json_load(json_dump(reports[p])))
              => /\ file.doc = json_dump(reports[q])
                 /\ HoldsReportOf(LoadReports(file), p)
                 /\ HoldsReportOf(LoadReports(file), q)

\* C11 witness: two runs with job ids 7 and 8 on one cluster both loaded the
\* file before either wrote it and both wrote it; the file holds one report
\* only and the report of run 1 is lost.
C11_Witness ==
    /\ Wrote(1) /\ Wrote(2)
    /\ handler[1].cluster_name = handler[2].cluster_name
    /\ sched[1].jobid = "7" /\ sched[2].jobid = "8"
    /\ after[1] = {} /\ after[2] = {}
    /\ loaded[1] = <<>> /\ loaded[2] = <<>>
    /\ ~JobRecorded(LoadReports(file), handler[1].cluster_name, "7")
    /\ HoldsReportOf(LoadReports(file), 2)
    /\ Len(DGet(LoadReports(file), handler[2].cluster_name)) = 1

\* two runs whose cycles did not overlap have both written the file
C11_SequentialReached ==
    /\ Wrote(1) /\ Wrote(2)
    /\ sched[1].jobid # sched[2].jobid
    /\ 1 \in after[2]
    /\ loaded[2] = json_load(json_dump(reports[1]))

---------------------------------------------------------------------------
(* The claims about the functions, checked under SpecFn. *)

\* What a token list supplies, token by token: a token that does not start
\* with - is a value when the token before it starts with - and holds no =;
\* a token that starts with - supplies a value when it holds = or when a
\* value follows it.
IsValueAt(ts, i) ==
    /\ i > 1
    /\ ~StartsWith(ts[i], "-")
    /\ StartsWith(ts[i - 1], "-")
    /\ ~Contains(ts[i - 1], "=")
Accepted(ts) ==
    \A i \in 1..Len(ts) : ~StartsWith(ts[i], "-") => IsValueAt(ts, i)
SuppliesAt(ts, i) ==
    /\ StartsWith(ts[i], "-")
    /\ Contains(ts[i], "=") \/ (i < Len(ts) /\ ~StartsWith(ts[i + 1], "-"))
KeyAt(ts, i) ==
    IF Contains(ts[i], "=") THEN SubSeq(ts[i], 1, IndexOf(ts[i], "=") - 1)
    ELSE ts[i]
ValueAt(ts, i) ==
    IF Contains(ts[i], "=")
    THEN SubSeq(ts[i], IndexOf(ts[i], "=") + 1, Len(ts[i]))
    ELSE ts[i + 1]
SuppliedKeys(ts) == {KeyAt(ts, i) : i \in {j \in 1..Len(ts) : SuppliesAt(ts, j)}}
\* the values the token list supplies for the key k, in encounter order
Supplied(ts, k) ==
    LET idx == SelectSeq([i \in 1..Len(ts) |-> i],
                         LAMBDA i : SuppliesAt(ts, i) /\ KeyAt(ts, i) = k)
    IN  [j \in 1..Len(idx) |-> ValueAt(ts, idx[j])]

\* C8: arglist2dicts rejects a token list with MalformedArgument exactly when
\* a token that does not start with - is not consumed as a value; of an
\* accepted list, a key supplied with a value once maps to that value as a
\* scalar and a key supplied several times, in either form, maps to the
\* sequence of its values in encounter order.
C8_ParserAccumulates ==
    (fx.op = "arglist2dicts" /\ fx.done)
    => /\ fx.res.err = "MalformedArgument" <=> ~Accepted(fx.arg)
       /\ fx.res.err = "none" <=> Accepted(fx.arg)
       /\ fx.res.err = "none"
          => /\ {fx.res.args[i].k : i \in 1..Len(fx.res.args)}
                    = SuppliedKeys(fx.arg)
             /\ \A k \in SuppliedKeys(fx.arg) :
                   LET vs == Supplied(fx.arg, k) IN
                   IF Len(vs) = 1
                   THEN DGet(fx.res.args, k) = Str(vs[1])
                   ELSE DGet(fx.res.args, k)
                            = List([j \in 1..Len(vs) |-> Str(vs[j])])

\* C8 witness: a key given first as key value and then as key=value maps to
\* the sequence of the two values.
C8_Witness ==
    /\ fx.op = "arglist2dicts" /\ fx.done
    /\ fx.arg = <<"-a", "x", "-a=1">>
    /\ fx.res.args = <<[k |-> "-a", v |-> List(<<Str("x"), Str("1")>>)]>>

\* C6 (as claimed): after the merge and resolve_multi_args every argument is
\* a single scalar, the last value supplied for its key: the user's last
\* value when the user gave the key, the default otherwise.
C6_LastSuppliedWins ==
    (fx.op = "merge" /\ fx.done /\ fx.res.err = "none")
    => \A i \in 1..Len(fx.res.args) :
          LET k == fx.res.args[i].k
              user == Supplied(fx.arg.tokens, k)
          IN  /\ ~IsList(fx.res.args[i].v)
              /\ fx.res.args[i].v =
                    IF Len(user) > 0 THEN Str(user[Len(user)])
                    ELSE LastOf(DGet(fx.arg.defaults, k))

\* C9: resolve_aliases fails with ConflictingAlias exactly when --cores comes
\* with --cpus-per-task or --gpu with --gres; otherwise the mapping it gives
\* holds neither alias, --cpus-per-task with the value of --cores, --gres
\* with gpu: before the value of --gpu, and every other key with its value.
AliasConflict(m) ==
    \/ DHas(m, "--cores") /\ DHas(m, "--cpus-per-task")
    \/ DHas(m, "--gpu") /\ DHas(m, "--gres")
C9_AliasesResolved ==
    (fx.op = "resolve_aliases" /\ fx.done)
    => /\ fx.res.err = "ConflictingAlias" <=> AliasConflict(fx.arg)
       /\ ~AliasConflict(fx.arg)
          => /\ fx.res.err = "none"
             /\ ~DHas(fx.res.args, "--cores") /\ ~DHas(fx.res.args, "--gpu")
             /\ Len(fx.res.args) = Len(fx.arg)
             /\ DHas(fx.arg, "--cores")
                => /\ DHas(fx.res.args, "--cpus-per-task")
                   /\ DGet(fx.res.args, "--cpus-per-task")
                        = DGet(fx.arg, "--cores")
             /\ DHas(fx.arg, "--gpu")
                => /\ DHas(fx.res.args, "--gres")
                   /\ DGet(fx.res.args, "--gres").s
                        = "gpu:" \o DGet(fx.arg, "--gpu").s
             /\ \A i \in 1..Len(fx.arg) :
                   fx.arg[i].k \notin {"--cores", "--gpu"}
                   => /\ DHas(fx.res.args, fx.arg[i].k)
                      /\ DGet(fx.res.args, fx.arg[i].k) = fx.arg[i].v

\* C9 witness: a mapping with both aliases and a job name has been resolved.
C9_Witness ==
    /\ fx.op = "resolve_aliases" /\ fx.done
    /\ DHas(fx.arg, "--cores") /\ DHas(fx.arg, "--gpu") /\ DHas(fx.arg, "-J")
    /\ DGet(fx.arg, "--gpu") = Str("2")
    /\ DGet(fx.res.args, "--gres") = Str("gpu:2")

\* the resources of the -l values, one [k, v] per key=value token, in order
RECURSIVE FlatResources(_)
FlatResources(items) ==
    IF Len(items) = 0 THEN <<>>
    ELSE LET toks == Split(items[1].s, ",")
         IN  [i \in 1..Len(toks) |->
                 [k |-> SubSeq(toks[i], 1, IndexOf(toks[i], "=") - 1),
                  v |-> SubSeq(toks[i], IndexOf(toks[i], "=") + 1, Len(toks[i]))]]
             \o FlatResources(Tail(items))
GivenResources(m) ==
    FlatResources(IF IsList(DGet(m, "-l")) THEN DGet(m, "-l").l
                  ELSE <<DGet(m, "-l")>>)
FirstAt(rs, k) == CHOOSE i \in 1..Len(rs) :
                     rs[i].k = k /\ \A j \in 1..(i - 1) : rs[j].k # k
LastAt(rs, k) == CHOOSE i \in 1..Len(rs) :
                    rs[i].k = k /\ \A j \in (i + 1)..Len(rs) : rs[j].k # k

\* C10: the PBS resolve_multi_args turns the -l values into one string of
\* comma-joined key=value tokens that holds each resource key given exactly
\* once, in the order of first appearance, with the value of its last
\* occurrence; every other multi-valued key keeps its last value and a
\* scalar stays as it is.
C10_ResourcesMerged ==
    (fx.op = "pbs_resolve_multi_args" /\ fx.done)
    => /\ fx.res.err = "none"
       /\ {fx.res.args[i].k : i \in 1..Len(fx.res.args)}
            = {fx.arg[i].k : i \in 1..Len(fx.arg)}
       /\ Len(fx.res.args) = Len(fx.arg)
       /\ \A i \in 1..Len(fx.arg) :
             fx.arg[i].k # "-l"
             => DGet(fx.res.args, fx.arg[i].k) =
                   IF IsList(fx.arg[i].v)
                   THEN fx.arg[i].v.l[Len(fx.arg[i].v.l)] ELSE fx.arg[i].v
       /\ DHas(fx.arg, "-l")
          => LET given == GivenResources(fx.arg)
                 got == FlatResources(<<DGet(fx.res.args, "-l")>>)
             IN  /\ ~IsList(DGet(fx.res.args, "-l"))
                 /\ \A i, j \in 1..Len(got) : i # j => got[i].k # got[j].k
                 /\ {got[i].k : i \in 1..Len(got)}
                      = {given[i].k : i \in 1..Len(given)}
                 /\ \A i, j \in 1..Len(got) :
                       i < j => FirstAt(given, got[i].k) < FirstAt(given, got[j].k)
                 /\ \A i \in 1..Len(got) :
                       got[i].v = given[LastAt(given, got[i].k)].v

\* C10 witness: walltime=1:00:00 then mem=4gb,walltime=2:00:00 has been
\* merged into walltime=2:00:00,mem=4gb.
C10_Witness ==
    /\ fx.op = "pbs_resolve_multi_args" /\ fx.done
    /\ DHas(fx.arg, "-l")
    /\ DGet(fx.arg, "-l") =
          List(<<Str("walltime=1:00:00"), Str("mem=4gb,walltime=2:00:00")>>)
    /\ DGet(fx.res.args, "-l") = Str("walltime=2:00:00,mem=4gb")

===========================================================================
